---- MODULE Spec2Model ----
(***************************************************************************)
(* A model of the zharko path tracer: the f64 vector kernel (math.rs), the *)
(* sphere and list intersection (math/hittables.rs), the materials         *)
(* (math/materials.rs), the image buffer (renderers.rs) and the camera     *)
(* with its integrator (camera.rs).                                        *)
(*                                                                         *)
(* An f64 is modelled as an exact extended rational <<n, d>>: d > 0 with   *)
(* gcd(n, d) = 1 is the finite value n/d, <<1, 0>> is +infinity,           *)
(* <<-1, 0>> is -infinity and <<0, 0>> is NaN.  Arithmetic and comparisons *)
(* follow IEEE 754 on these values (NaN compares false with everything,    *)
(* x/0 is an infinity or NaN); rounding and signed zeros are not modelled. *)
(* A square root is taken only of squares of rationals: the inputs of      *)
(* every action are drawn so that each root the code takes is rational.    *)
(*                                                                         *)
(* A local `let x = e` of the code that is read more than once is passed   *)
(* as the argument of a continuation operator (SphereHit -> SphereHitQ ->  *)
(* SphereHitD -> SphereHitR), so that e is written, and evaluated, once.   *)
(***************************************************************************)
EXTENDS Integers, Sequences, FiniteSets, TLC

VARIABLES
    objects,    \* HittableList.objects: the spheres of the world, in order
    call,       \* the last call made on the geometry / materials / integrator
    image,      \* Camera.image: [width, height, pixels]
    cam,        \* the Camera
    pc,         \* where the program is: "idle", "render", "done" or "panic"
    rj,         \* render: the row j of the loop
    ri,         \* render: the column i of the loop
    rs,         \* render: how many samples of the pixel are taken
    color,      \* render: the colour accumulated for the pixel
    writes,     \* render: the cells (x, y) handed to set_pixel, in order
    drawn       \* what Renderer::draw was given

vars == <<objects, call, image, cam, pc, rj, ri, rs, color, writes, drawn>>

-----------------------------------------------------------------------------
(* f64 *)

\* The value of a set of one element: Only({f(x) : x \in {e}}) is f(e), with e
\* computed once, before f reads it
Only(S) == CHOOSE x \in S : TRUE

Abs(i) == IF i < 0 THEN 0 - i ELSE i

Sgn(i) == IF i < 0 THEN 0 - 1 ELSE IF i > 0 THEN 1 ELSE 0

RECURSIVE Gcd(_, _)
Gcd(a, b) == IF b = 0 THEN a ELSE Gcd(b, a % b)

\* The value n/d in lowest terms; a zero denominator gives an infinity or NaN.
Norm(n, d) ==
    IF d = 0 THEN <<Sgn(n), 0>>
    ELSE LET g == Gcd(Abs(n), Abs(d))
         IN  <<Sgn(d) * (n \div g), Abs(d) \div g>>

F(i) == <<i, 1>>
Frac(n, d) == Norm(n, d)
NaN == <<0, 0>>
INFINITY == <<1, 0>>
Zero == F(0)
One == F(1)

IsNaN(x) == x = NaN
IsFinite(x) == x[2] # 0

FNeg(x) == <<0 - x[1], x[2]>>

\* The sum of two finite values, over the least common denominator
FAddFinite(x, y, g) ==
    Norm(x[1] * (y[2] \div g) + y[1] * (x[2] \div g), (x[2] \div g) * y[2])

FAdd(x, y) ==
    IF x[2] = 0 /\ y[2] = 0
    THEN IF x = y THEN x ELSE NaN
    ELSE IF x[2] = 0 THEN x
    ELSE IF y[2] = 0 THEN y
    ELSE FAddFinite(x, y, Gcd(x[2], y[2]))

FSub(x, y) == FAdd(x, FNeg(y))

FMul(x, y) == Norm(x[1] * y[1], x[2] * y[2])

FDiv(x, y) ==
    IF y[1] = 0 /\ y[2] # 0 THEN <<Sgn(x[1]), 0>>
    ELSE Norm(x[1] * y[2] * Sgn(y[1]), x[2] * Abs(y[1]))

FLt(x, y) ==
    /\ ~IsNaN(x)
    /\ ~IsNaN(y)
    /\ IF x[2] = 0 /\ y[2] = 0 THEN x[1] < y[1]
       ELSE x[1] * y[2] < y[1] * x[2]

FEq(x, y) == ~IsNaN(x) /\ ~IsNaN(y) /\ x = y
FLe(x, y) == FLt(x, y) \/ FEq(x, y)
FGt(x, y) == FLt(y, x)
FGe(x, y) == FLe(y, x)

FMin(x, y) == IF IsNaN(x) THEN y ELSE IF IsNaN(y) THEN x ELSE IF FLt(y, x) THEN y ELSE x

\* floor(sqrt(n)) of a natural number by Newton's iteration
RECURSIVE Newton(_, _)
Newton(n, x) ==
    LET y == (x + n \div x) \div 2
    IN  IF y >= x THEN x ELSE Newton(n, y)

ISqrt(n) == IF n = 0 THEN 0 ELSE Newton(n, n)

IsSquare(x) == IsFinite(x) /\ x[1] >= 0
               /\ ISqrt(x[1]) * ISqrt(x[1]) = x[1]
               /\ ISqrt(x[2]) * ISqrt(x[2]) = x[2]

\* f64::sqrt: NaN below zero, exact on the squares the model takes it of
FSqrt(x) ==
    IF IsNaN(x) \/ x[1] < 0 THEN NaN
    ELSE IF x[2] = 0 THEN INFINITY
    ELSE <<ISqrt(x[1]), ISqrt(x[2])>>

-----------------------------------------------------------------------------
(* Vec3 and Ray *)

Vec3(x, y, z) == <<x, y, z>>
V(i, j, k) == <<F(i), F(j), F(k)>>
zero == V(0, 0, 0)

dot(a, b) == FAdd(FAdd(FMul(a[1], b[1]), FMul(a[2], b[2])), FMul(a[3], b[3]))

cross(a, b) ==
    Vec3(FSub(FMul(a[2], b[3]), FMul(a[3], b[2])),
         FSub(FMul(a[3], b[1]), FMul(a[1], b[3])),
         FSub(FMul(a[1], b[2]), FMul(a[2], b[1])))

length_squared(a) == dot(a, a)

length(a) == FSqrt(FAdd(FAdd(FMul(a[1], a[1]), FMul(a[2], a[2])), FMul(a[3], a[3])))

VAdd(a, b) == Vec3(FAdd(a[1], b[1]), FAdd(a[2], b[2]), FAdd(a[3], b[3]))
VSub(a, b) == Vec3(FSub(a[1], b[1]), FSub(a[2], b[2]), FSub(a[3], b[3]))
VScale(s, a) == Vec3(FMul(s, a[1]), FMul(s, a[2]), FMul(s, a[3]))
VDiv(a, s) == Vec3(FDiv(a[1], s), FDiv(a[2], s), FDiv(a[3], s))
VMul(a, b) == Vec3(FMul(a[1], b[1]), FMul(a[2], b[2]), FMul(a[3], b[3]))

unit(a) == Only({VDiv(a, len) : len \in {length(a)}})

Ray(origin, dir) == [origin |-> origin, dir |-> dir]

at(r, t) == VAdd(r.origin, VScale(t, r.dir))

-----------------------------------------------------------------------------
(* HitRecord, Sphere, HittableList *)

NoHit == [hit |-> FALSE]
Hit(rec) == [hit |-> TRUE, rec |-> rec]

\* self.front_face = r.dir.dot(outward_normal) < 0.0
FrontFace(r, outward_normal) == FLt(dot(r.dir, outward_normal), Zero)

Orient(front_face, outward_normal) ==
    IF front_face THEN outward_normal ELSE VScale(F(0 - 1), outward_normal)

SetFace(rec, front_face, outward_normal) ==
    [rec EXCEPT !.front_face = front_face, !.normal = Orient(front_face, outward_normal)]

set_face_normal(rec, r, outward_normal) ==
    SetFace(rec, FrontFace(r, outward_normal), outward_normal)

SphereNew(center, radius) == [center |-> center, radius |-> radius]

\* let a = ..; let h = ..; let c = ..  (oc = center - origin)
CoeffsOf(oc, dir, radius) ==
    [a |-> length_squared(dir),
     h |-> dot(oc, dir),
     c |-> FSub(length_squared(oc), FMul(radius, radius))]

SphereCoeffs(s, r) == CoeffsOf(VSub(s.center, r.origin), r.dir, s.radius)

\* h * h - a * c
Disc(q) == FSub(FMul(q.h, q.h), FMul(q.a, q.c))

discriminant(s, r) == Disc(SphereCoeffs(s, r))

\* <<(h - sqrtd) / a, (h + sqrtd) / a>>
Roots(q, sqrtd) == <<FDiv(FSub(q.h, sqrtd), q.a), FDiv(FAdd(q.h, sqrtd), q.a)>>

SphereRoots(s, r) == Roots(SphereCoeffs(s, r), FSqrt(discriminant(s, r)))

\* root <= ray_tmin || root >= ray_tmax
OutOfRangeClosed(root, ray_tmin, ray_tmax) == FLt(root, ray_tmin) \/ FGt(root, ray_tmax)
OutOfRange(root, ray_tmin, ray_tmax) == FLe(root, ray_tmin) \/ FGe(root, ray_tmax)

RecordAt(s, r, root, point) ==
    set_face_normal([t |-> root,
                     point |-> point,
                     normal |-> VDiv(VSub(point, s.center), s.radius),
                     front_face |-> FALSE],
                    r, VDiv(VSub(point, s.center), s.radius))

SphereRecord(s, r, root) == Only({RecordAt(s, r, root, point) : point \in {at(r, root)}})

SphereHitR(s, r, ray_tmin, ray_tmax, roots) ==
    IF OutOfRange(roots[1], ray_tmin, ray_tmax)
    THEN IF OutOfRange(roots[2], ray_tmin, ray_tmax)
         THEN NoHit
         ELSE Hit(SphereRecord(s, r, roots[2]))
    ELSE Hit(SphereRecord(s, r, roots[1]))

SphereHitD(s, r, ray_tmin, ray_tmax, q, disc) ==
    IF FLt(disc, Zero) THEN NoHit
    ELSE Only({SphereHitR(s, r, ray_tmin, ray_tmax, roots) : roots \in {Roots(q, FSqrt(disc))}})

SphereHitQ(s, r, ray_tmin, ray_tmax, q) ==
    Only({SphereHitD(s, r, ray_tmin, ray_tmax, q, disc) : disc \in {Disc(q)}})

\* impl Hittable for Sphere
SphereHit(s, r, ray_tmin, ray_tmax) ==
    Only({SphereHitQ(s, r, ray_tmin, ray_tmax, q) : q \in {SphereCoeffs(s, r)}})

\* A material, as the three constructors of materials.rs build it
Lambertian(albedo) ==
    [kind |-> "Lambertian", albedo |-> albedo, fuzziness |-> Zero, refraction_index |-> Zero]
Metal(albedo, fuzziness) ==
    [kind |-> "Metal", albedo |-> albedo, fuzziness |-> fuzziness, refraction_index |-> Zero]
Dielectric(refraction_index) ==
    [kind |-> "Dielectric", albedo |-> zero, fuzziness |-> Zero,
     refraction_index |-> refraction_index]

\* A sphere of the world: Sphere::new(center, radius, material), as main.rs calls it
SphereNewMat(center, radius, mat) == [center |-> center, radius |-> radius, mat |-> mat]

WithMat(h, mat) ==
    IF h.hit
    THEN Hit([t |-> h.rec.t, point |-> h.rec.point, normal |-> h.rec.normal,
              front_face |-> h.rec.front_face, mat |-> mat])
    ELSE NoHit

\* The child's hit, its record carrying the material struck
ObjHit(obj, r, ray_tmin, ray_tmax) == WithMat(SphereHit(obj, r, ray_tmin, ray_tmax), obj.mat)

\* The upper bound the scan hands to the next child: obj.hit(r, ray_tmin, ray_tmax)
QueryMax(st, ray_tmax) == ray_tmax

\* if closest_so_far > rec.t
AcceptAny(st, h) == h.hit
Accept(st, h) == h.hit /\ FGt(st.closest_so_far, h.rec.t)

ListStepA(st, h, accept, ray_tmin, q) ==
    [res |-> IF accept THEN h ELSE st.res,
     closest_so_far |-> IF accept THEN h.rec.t ELSE st.closest_so_far,
     queries |-> Append(st.queries, <<ray_tmin, q>>)]

ListStepH(st, h, ray_tmin, q) == ListStepA(st, h, Accept(st, h), ray_tmin, q)

ListStepQ(st, obj, r, ray_tmin, q) ==
    Only({ListStepH(st, h, ray_tmin, q) : h \in {ObjHit(obj, r, ray_tmin, q)}})

\* One turn of the loop over self.objects
ListStep(st, obj, r, ray_tmin, ray_tmax) ==
    ListStepQ(st, obj, r, ray_tmin, QueryMax(st, ray_tmax))

RECURSIVE ListScan(_, _, _, _, _, _)
ListScan(objs, k, st, r, ray_tmin, ray_tmax) ==
    IF k > Len(objs) THEN st
    ELSE Only({ListScan(objs, k + 1, next, r, ray_tmin, ray_tmax) :
                  next \in {ListStep(st, objs[k], r, ray_tmin, ray_tmax)}})

ListHitTrace(objs, r, ray_tmin, ray_tmax) ==
    ListScan(objs, 1, [res |-> NoHit, closest_so_far |-> ray_tmax, queries |-> <<>>],
             r, ray_tmin, ray_tmax)

\* impl Hittable for &HittableList
ListHit(objs, r, ray_tmin, ray_tmax) == ListHitTrace(objs, r, ray_tmin, ray_tmax).res

-----------------------------------------------------------------------------
(* Materials *)

\* Option<ScatterResult>
None == [some |-> FALSE]
Some(attenuation, scattered) ==
    [some |-> TRUE, attenuation |-> attenuation, scattered |-> scattered]

\* Vec3::random_unit_vector keeps a draw p of random_range(-1.0, 1.0) when
\* 1e-16 < p.length_squared() <= 1.0 and draws again otherwise
InRange(p) == \A i \in 1..3 : FLe(F(0 - 1), p[i]) /\ FLt(p[i], One)
\* 1e-16 < l, for an l = n/d >= 0: n * 10^16 > d, in 32-bit steps
Above1e16th(l) == l[1] > 20 \/ l[1] * 100000000 > l[2] \div 100000000
KeptLength(l) == Above1e16th(l) /\ FLe(l, One)
Kept(p) == KeptLength(length_squared(p))

\* return p / l.sqrt()
random_unit_vector(p) == Only({VDiv(p, l) : l \in {FSqrt(length_squared(p))}})

\* v - 2 * dot(v, n) * n
reflect(v, n) == VSub(v, VScale(FMul(F(2), dot(v, n)), n))

\* Snell's law: the part of the refracted ray across the normal and the part along it
RefractPerp(uv, n, cos_theta, etai_over_etat) ==
    VScale(etai_over_etat, VAdd(uv, VScale(cos_theta, n)))

FAbs(x) == <<Abs(x[1]), x[2]>>

RefractSum(n, r_out_perp) ==
    VAdd(r_out_perp,
         VScale(FNeg(FSqrt(FAbs(FSub(One, length_squared(r_out_perp))))), n))

refract(uv, n, etai_over_etat) ==
    Only({RefractSum(n, r_out_perp) :
             r_out_perp \in {RefractPerp(uv, n, FMin(dot(VScale(F(0 - 1), uv), n), One),
                                         etai_over_etat)}})

\* |x| < 1e-8, for a finite x = n/d: |n| * 10^8 < d, without overflow
Below1e8th(x) == IsFinite(x) /\ Abs(x[1]) <= 20 /\ Abs(x[1]) * 100000000 < x[2]

\* every component within 1e-8 of zero
near_zero(v) == \A i \in 1..3 : Below1e8th(v[i])

LambertianOutNoGuard(m, rec, scatter_dir) ==
    Some(m.albedo, Ray(rec.point, scatter_dir))
LambertianOut(m, rec, scatter_dir) ==
    Some(m.albedo, Ray(rec.point, IF near_zero(scatter_dir) THEN rec.normal
                                  ELSE scatter_dir))

\* impl Material for Lambertian: rnd is the random unit vector drawn
LambertianScatter(m, rec, rnd) ==
    Only({LambertianOut(m, rec, scatter_dir) : scatter_dir \in {VAdd(rec.normal, rnd)}})

\* if reflected.dot(&rec.normal) < 0.0
MetalAbsorbsGrazing(reflected, normal) == FLe(dot(reflected, normal), Zero)
MetalAbsorbs(reflected, normal) == FLt(dot(reflected, normal), Zero)

MetalOut(m, rec, reflected) ==
    IF MetalAbsorbs(reflected, rec.normal) THEN None
    ELSE Some(m.albedo, Ray(rec.point, reflected))

\* reflect(&r.dir, &rec.normal).unit() + (self.fuzziness * Vec3::random_unit_vector())
MetalDir(m, r, rec, rnd) ==
    Only({VAdd(reflected, VScale(m.fuzziness, rnd)) :
             reflected \in {unit(reflect(r.dir, rec.normal))}})

\* impl Material for Metal
MetalScatter(m, r, rec, rnd) ==
    Only({MetalOut(m, rec, reflected) : reflected \in {MetalDir(m, r, rec, rnd)}})

Pow5(x) == FMul(FMul(FMul(x, x), FMul(x, x)), x)

ReflectanceR1(cosine, r1) == FAdd(r1, FMul(FSub(One, r1), Pow5(FSub(One, cosine))))

ReflectanceR0(cosine, r0) == ReflectanceR1(cosine, FMul(r0, r0))

\* Dielectric::reflectance: Schlick's approximation
reflectance(cosine, refraction_index) ==
    ReflectanceR0(cosine, FDiv(FSub(One, refraction_index), FAdd(One, refraction_index)))

\* let ri = if rec.front_face { 1.0 / self.refraction_index } else { self.refraction_index }
RefractionRatio(m, rec) ==
    IF rec.front_face THEN FDiv(One, m.refraction_index) ELSE m.refraction_index

CosTheta(unit_dir, rec) == FMin(FMul(F(0 - 1), dot(unit_dir, rec.normal)), One)

SinTheta(cos_theta) == FSqrt(FSub(One, FMul(cos_theta, cos_theta)))

\* cannot_refract || Dielectric::reflectance(cos_theta, ri) > random::<f64>()
Reflects(eta, cos_theta, sin_theta, u) ==
    FGt(FMul(eta, sin_theta), One) \/ FGt(reflectance(cos_theta, eta), u)

DielectricDir(rec, eta, unit_dir, cos_theta, u) ==
    IF Reflects(eta, cos_theta, SinTheta(cos_theta), u)
    THEN reflect(unit_dir, rec.normal)
    ELSE refract(unit_dir, rec.normal, eta)

DielectricAttenuation == Vec3(One, One, One)

DielectricOut(rec, eta, unit_dir, u) ==
    Only({Some(DielectricAttenuation, Ray(rec.point, direction)) :
             direction \in {Only({DielectricDir(rec, eta, unit_dir, cos_theta, u) :
                                     cos_theta \in {CosTheta(unit_dir, rec)}})}})

\* impl Material for Dielectric: u is the draw of random::<f64>()
DielectricScatter(m, r, rec, u) ==
    Only({DielectricOut(rec, eta, unit_dir, u) :
             eta \in {RefractionRatio(m, rec)}, unit_dir \in {unit(r.dir)}})

\* rec.mat.scatter(r, &rec)
Scatter(m, r, rec, rnd, u) ==
    IF m.kind = "Lambertian" THEN LambertianScatter(m, rec, rnd)
    ELSE IF m.kind = "Metal" THEN MetalScatter(m, r, rec, rnd)
    ELSE DielectricScatter(m, r, rec, u)

-----------------------------------------------------------------------------
(* The inputs of the geometry calls *)

MaxObjects == 2

TMIN == Frac(1, 10000)

GeoMat == Lambertian(Vec3(Frac(1, 2), Frac(1, 2), Frac(1, 2)))
GeoSpheres ==
    {SphereNewMat(V(0, 0, 0 - 3), F(1), GeoMat),         \* ahead on the -z axis
     SphereNewMat(V(0, 0, 0 - 3), Frac(1, 2), GeoMat),   \* nested in the first
     SphereNewMat(V(0, 0, 0 - 1), F(1), GeoMat),         \* touches the first, origin on it
     SphereNewMat(V(0, 0, 0 - 3), F(4), GeoMat),         \* encloses the origin
     SphereNewMat(V(1, 0, 0 - 3), F(1), GeoMat),         \* tangent to the -z axis
     SphereNewMat(V(3, 0, 0 - 4), F(1), GeoMat),         \* on the oblique ray
     SphereNewMat(V(0, 0, 0 - 3), F(0 - 1), GeoMat),     \* a negative radius
     SphereNewMat(V(0, 0, 0 - 3), F(0), GeoMat)}         \* a zero radius
GeoRays ==
    {Ray(V(0, 0, 0), d) : d \in {V(0, 0, 0 - 1), V(0, 0, 0 - 2), V(0, 0, 1),
                                 V(3, 0, 0 - 4), V(0, 0, 0)}}
    \cup {Ray(V(0, 0, 0 - 3), V(0, 0, 0 - 1))}
GeoIntervals == {<<TMIN, INFINITY>>, <<Zero, F(2)>>, <<F(2), F(4)>>, <<F(1), F(5)>>}

\* Every root Sphere::hit takes for this sphere and ray is rational
ExactDisc(d) == ~IsFinite(d) \/ d[1] < 0 \/ IsSquare(d)
ExactHit(s, r) == ExactDisc(discriminant(s, r))

ExactList(objs, r) == \A k \in 1..Len(objs) : ExactHit(objs[k], r)

Idle == [fn |-> "none"]
NotDrawn == [done |-> FALSE]
NoImage == [made |-> FALSE]
NoCam == [made |-> FALSE]

\* HittableList::add(Box::new(Sphere::new(..)))
add(s) ==
    /\ call = Idle
    /\ Len(objects) < MaxObjects
    /\ objects' = Append(objects, s)
    /\ UNCHANGED <<call, image, cam, pc, rj, ri, rs, color, writes, drawn>>

\* Sphere::hit on one sphere of the world
CallSphereHit(k, r, iv) ==
    /\ call = Idle
    /\ ExactHit(objects[k], r)
    /\ call' = [fn |-> "sphere_hit", s |-> objects[k], r |-> r, ray_tmin |-> iv[1],
                ray_tmax |-> iv[2], res |-> SphereHit(objects[k], r, iv[1], iv[2])]
    /\ UNCHANGED <<objects, image, cam, pc, rj, ri, rs, color, writes, drawn>>

ListCall(r, iv, tr) ==
    [fn |-> "list_hit", r |-> r, ray_tmin |-> iv[1], ray_tmax |-> iv[2],
     res |-> tr.res, queries |-> tr.queries]

\* (&HittableList)::hit on the world
CallListHit(r, iv) ==
    /\ call = Idle
    /\ ExactList(objects, r)
    /\ call' = ListCall(r, iv, ListHitTrace(objects, r, iv[1], iv[2]))
    /\ UNCHANGED <<objects, image, cam, pc, rj, ri, rs, color, writes, drawn>>

InitGeo ==
    /\ objects = <<>>
    /\ call = Idle
    /\ image = NoImage
    /\ cam = NoCam
    /\ pc = "idle"
    /\ rj = 0
    /\ ri = 0
    /\ rs = 0
    /\ color = zero
    /\ writes = <<>>
    /\ drawn = NotDrawn

NextGeo ==
    \/ \E s \in GeoSpheres : add(s)
    \/ \E k \in 1..Len(objects), r \in GeoRays, iv \in GeoIntervals : CallSphereHit(k, r, iv)
    \/ \E r \in GeoRays, iv \in GeoIntervals : CallListHit(r, iv)

SpecGeo == InitGeo /\ [][NextGeo]_vars

-----------------------------------------------------------------------------
(* Scattering: a ray strikes one sphere and its material scatters it *)

MatAlbedo == Vec3(Frac(4, 5), Frac(3, 5), Frac(1, 2))
MatMaterials ==
    {Lambertian(MatAlbedo), Metal(MatAlbedo, Zero), Metal(MatAlbedo, One),
     Dielectric(Frac(3, 2)), Dielectric(Frac(4, 3)), Dielectric(F(2))}
MatSpheres ==
    {SphereNewMat(c[1], c[2], m) :
        c \in {<<V(0, 0, 0 - 3), F(1)>>, <<V(0, 0, 0 - 3), F(5)>>}, m \in MatMaterials}
MatRays == {Ray(V(0, 0, 0), V(0, 0, 0 - 1)),     \* head-on, from outside or inside
            Ray(V(0, 0, 0), V(0, 0, 0 - 2)),
            Ray(V(3, 0, 0), V(0, 0, 0 - 1)),     \* oblique: cos 4/5 on the radius 5
            Ray(V(4, 0, 0), V(0, 0, 0 - 1))}     \* oblique: cos 3/5 on the radius 5
\* Draws of Vec3::random_range(-1.0, 1.0), the rejected ones among them
MatSamples == {Vec3(Zero, Zero, F(0 - 1)), Vec3(Zero, Zero, Frac(0 - 1, 2)),
               Vec3(Frac(3, 5), Zero, Frac(4, 5)), Vec3(Frac(4, 5), Zero, Frac(0 - 3, 5)),
               Vec3(Zero, Zero, Zero), Vec3(F(0 - 1), F(0 - 1), Zero)}
\* Draws of random::<f64>()
MatDraws == {Zero, Frac(1, 2), Frac(99, 100)}

ExactDielectricDir(rec, eta, unit_dir, cos_theta, u) ==
    /\ IsSquare(FSub(One, FMul(cos_theta, cos_theta)))
    /\ \/ Reflects(eta, cos_theta, SinTheta(cos_theta), u)
       \/ IsSquare(FAbs(FSub(One, length_squared(
              RefractPerp(unit_dir, rec.normal, cos_theta, eta)))))

ExactDielectric(rec, eta, unit_dir, u) ==
    ExactDielectricDir(rec, eta, unit_dir, CosTheta(unit_dir, rec), u)

\* Every root the material takes to scatter r at rec is rational
ExactScatter(m, r, rec, u) ==
    IF m.kind = "Lambertian" THEN TRUE
    ELSE IF m.kind = "Metal" THEN IsSquare(length_squared(reflect(r.dir, rec.normal)))
    ELSE /\ IsSquare(length_squared(r.dir))
         /\ ExactDielectric(rec, RefractionRatio(m, rec), unit(r.dir), u)

ScatterCall(s, r, h, p, u) ==
    [fn |-> "scatter", s |-> s, r |-> r, rec |-> h.rec, p |-> p, u |-> u,
     res |-> Scatter(s.mat, r, h.rec, random_unit_vector(p), u)]

ScatterAt(s, r, h, p, u) ==
    /\ h.hit
    /\ ExactScatter(s.mat, r, h.rec, u)
    /\ call' = ScatterCall(s, r, h, p, u)

\* world.hit(r, Interval::new(0.0001, f64::INFINITY)), then rec.mat.scatter(r, &rec)
CallScatter(s, r, p, u) ==
    /\ call = Idle
    /\ InRange(p)
    /\ Kept(p)
    /\ IsSquare(length_squared(p))
    /\ ExactHit(s, r)
    /\ ScatterAt(s, r, ObjHit(s, r, TMIN, INFINITY), p, u)
    /\ UNCHANGED <<objects, image, cam, pc, rj, ri, rs, color, writes, drawn>>

InitMat == InitGeo

NextMat == \E s \in MatSpheres, r \in MatRays, p \in MatSamples, u \in MatDraws :
               CallScatter(s, r, p, u)

SpecMat == InitMat /\ [][NextMat]_vars

-----------------------------------------------------------------------------
(* The integrator: Camera::ray_color *)

\* What a call of ray_color gives: the colour, and how many intersection tests
\* (world.hit) and scatter calls (rec.mat.scatter) the call and its recursion made
Traced(c, hits, scatters) == [color |-> c, hits |-> hits, scatters |-> scatters]

White == Vec3(One, One, One)
SkyBlue == Vec3(Frac(1, 2), Frac(7, 10), One)

\* (1.0 - a) * Vec3::new(1.0, 1.0, 1.0) + a * Vec3::new(0.5, 0.7, 1.0)
Lerp(a) == VAdd(VScale(FSub(One, a), White), VScale(a, SkyBlue))

BackgroundOf(unit_dir) == Lerp(FMul(Frac(1, 2), FAdd(unit_dir[2], One)))

\* let unit_dir = r.dir.unit(); let a = 0.5 * (unit_dir.y + 1.0);
BackgroundRaw(r) == BackgroundOf(r.dir)
Background(r) == BackgroundOf(unit(r.dir))

\* scatter_res.attenuation * Camera::ray_color(&scatter_res.scattered, depth - 1, world)
AttenuateSum(attenuation, sub) ==
    Traced(VAdd(attenuation, sub.color), sub.hits + 1, sub.scatters + 1)
Attenuate(attenuation, sub) ==
    Traced(VMul(attenuation, sub.color), sub.hits + 1, sub.scatters + 1)

\* if depth <= 0
ExhaustedBelowZero(depth) == depth < 0
Exhausted(depth) == depth <= 0

RECURSIVE RayColor(_, _, _, _)

RayColorScatter(depth, world, tape, sr) ==
    IF sr.some
    THEN Attenuate(sr.attenuation, RayColor(sr.scattered, depth - 1, world, Tail(tape)))
    ELSE Traced(zero, 1, 1)

RayColorHit(r, depth, world, tape, h) ==
    IF h.hit
    THEN Only({RayColorScatter(depth, world, tape, sr) :
                  sr \in {Only({Scatter(h.rec.mat, r, h.rec, rnd, Head(tape).u) :
                                   rnd \in {random_unit_vector(Head(tape).p)}})}})
    ELSE Traced(Background(r), 1, 0)

\* Camera::ray_color; tape holds the random draws of the bounces, in order
RayColor(r, depth, world, tape) ==
    IF Exhausted(depth) THEN Traced(zero, 0, 0)
    ELSE Only({RayColorHit(r, depth, world, tape, h) :
                  h \in {ListHit(world, r, TMIN, INFINITY)}})

\* The model follows a path while the coordinates of its rays stay short fractions
MaxDenominator == 1000
Short(a) == \A i \in 1..3 : Abs(a[i][1]) <= MaxDenominator /\ a[i][2] <= MaxDenominator

\* Every root ray_color takes on this path is rational, and the tape holds a draw
\* for every scatter call of the path
RECURSIVE ExactPath(_, _, _, _)

ExactPathScatter(depth, world, tape, sr) ==
    sr.some => ExactPath(sr.scattered, depth - 1, world, Tail(tape))

ExactPathHit(r, depth, world, tape, h) ==
    IF h.hit
    THEN /\ tape # <<>>
         /\ Short(h.rec.point)
         /\ Short(h.rec.normal)
         /\ ExactScatter(h.rec.mat, r, h.rec, Head(tape).u)
         /\ \E rnd \in {random_unit_vector(Head(tape).p)} :
                \E sr \in {Scatter(h.rec.mat, r, h.rec, rnd, Head(tape).u)} :
                    ExactPathScatter(depth, world, tape, sr)
    ELSE IsSquare(length_squared(r.dir))

ExactPath(r, depth, world, tape) ==
    IF Exhausted(depth) THEN TRUE
    ELSE /\ Short(r.origin)
         /\ Short(r.dir)
         /\ ExactList(world, r)
         /\ \E h \in {ListHit(world, r, TMIN, INFINITY)} :
                ExactPathHit(r, depth, world, tape, h)

\* A draw the rejection sampling of random_unit_vector keeps, of rational length
DrawOk(d) == InRange(d.p) /\ Kept(d.p) /\ IsSquare(length_squared(d.p))

MaxDepth == 2

TraceAlbedo == Vec3(Frac(4, 5), Frac(3, 5), Frac(1, 2))
Mirror == SphereNewMat(V(0, 0, 0 - 3), F(1), Metal(TraceAlbedo, Zero))
Matte == SphereNewMat(V(0, 0, 3), F(1), Lambertian(Vec3(Frac(1, 2), Frac(1, 2), Frac(1, 2))))
Glass == SphereNewMat(V(0, 0, 0 - 3), F(1), Dielectric(Frac(3, 2)))
Rough == SphereNewMat(V(0, 0, 0 - 3), F(5), Metal(TraceAlbedo, One))
\* The camera stands on this sphere: every primary ray meets it at t = 0 and beyond
Shell == SphereNewMat(V(0, 0, 0 - 3), F(3), Metal(TraceAlbedo, Zero))

TraceWorlds == {<<>>, <<Mirror>>, <<Mirror, Matte>>, <<Matte, Glass>>, <<Rough>>, <<Shell>>}
TraceRays == {Ray(V(0, 0, 0), V(0, 0, 0 - 1)),
              Ray(V(4, 0, 0), V(0, 0, 0 - 1)),
              Ray(V(0, 0, 0), V(0, 2, 0)),
              Ray(V(0, 0, 5), V(0, 0 - 1, 0))}
TraceDraws == {[p |-> Vec3(Zero, Zero, F(0 - 1)), u |-> Zero],
               [p |-> Vec3(Frac(24, 25), Zero, Frac(0 - 7, 25)), u |-> Frac(1, 2)],
               [p |-> Vec3(Frac(4, 5), Zero, Frac(0 - 3, 5)), u |-> Frac(1, 2)]}
Tapes(n) == [1..n -> TraceDraws]

\* The record of a ray_color call: tape holds the draws the call consumed
RayColorRecord(r, depth, tape, res) ==
    [fn |-> "ray_color", r |-> r, depth |-> depth,
     tape |-> SubSeq(tape, 1, res.scatters), res |-> res]

RayColorCall(r, depth, tape) ==
    RayColorRecord(r, depth, tape, RayColor(r, depth, objects, tape))

\* Camera::ray_color(&ray, depth, world), called on its own
CallRayColor(r, depth, tape) ==
    /\ call = Idle
    /\ pc = "idle"
    /\ ~image.made
    /\ \A k \in 1..Len(tape) : DrawOk(tape[k])
    /\ ExactPath(r, depth, objects, tape) = TRUE
    /\ \E traced \in {RayColorCall(r, depth, tape)} : call' = traced
    /\ UNCHANGED <<objects, image, cam, pc, rj, ri, rs, color, writes, drawn>>

InitTrace ==
    /\ objects \in TraceWorlds
    /\ call = Idle
    /\ image = NoImage
    /\ cam = NoCam
    /\ pc = "idle"
    /\ rj = 0
    /\ ri = 0
    /\ rs = 0
    /\ color = zero
    /\ writes = <<>>
    /\ drawn = NotDrawn

NextTrace ==
    \/ \E r \in TraceRays, depth \in (0 - 1)..MaxDepth :
           \E tape \in Tapes(IF depth > 0 THEN depth ELSE 0) : CallRayColor(r, depth, tape)

SpecTrace == InitTrace /\ [][NextTrace]_vars

-----------------------------------------------------------------------------
(* Image and Color *)

Color(r, g, b) == [r |-> r, g |-> g, b |-> b]
Black == Color(0, 0, 0)

\* Image::new: vec![vec![Color::new(0, 0, 0); width]; height]
ImageOf(width, height) ==
    [made |-> TRUE, width |-> width, height |-> height,
     pixels |-> [y \in 1..height |-> [x \in 1..width |-> Black]]]

\* self.pixels[y][x]: indexing panics outside the vectors
InBounds(img, x, y) == y < Len(img.pixels) /\ x < Len(img.pixels[y + 1])

\* Image::set_pixel on an addressable cell
set_pixel(img, x, y, c) == [img EXCEPT !.pixels[y + 1][x + 1] = c]

get_pixel(img, x, y) == img.pixels[y + 1][x + 1]

\* floor(256 * sqrt(x)) for 0 < x < 1: the integer root of floor(65536 * x)
GammaByte(x) == ISqrt((65536 * x[1]) \div x[2])

\* (interval.clamp(linear_to_gamma(x)) * 256.0) as u8 with the interval [0, 0.9999]:
\* 0 unless x > 0, and 255 from the x whose root is clamped to 0.9999
ChannelLinear(x) ==
    IF ~FGt(x, Zero) THEN 0
    ELSE IF FGe(x, One) THEN 255
    ELSE (256 * x[1]) \div x[2]
Channel(x) ==
    IF ~FGt(x, Zero) THEN 0
    ELSE IF FGe(x, One) THEN 255
    ELSE GammaByte(x)

\* impl From<Vec3> for renderers::Color
FromVec3(val) == Color(Channel(val[1]), Channel(val[2]), Channel(val[3]))

-----------------------------------------------------------------------------
(* Camera *)

\* tan of a whole number k of eighths of a turn; the model takes no tan at a pole
TanEighths(k) == IF k = 0 THEN Zero ELSE IF k = 1 THEN One ELSE F(0 - 1)

\* degrees_to_radians(deg).tan()
TanDeg(deg) ==
    IF ~IsFinite(deg) THEN NaN ELSE TanEighths((deg[1] \div 45) % 4)

ExactTan(deg) ==
    ~IsFinite(deg) \/ (deg[2] = 1 /\ deg[1] % 45 = 0 /\ (deg[1] \div 45) % 4 # 2)

Half(x) == FDiv(x, F(2))

\* let viewport_height = 2.0 * h * self.focus_dist
ViewportHeight(c) == FMul(FMul(F(2), TanDeg(Half(c.vfov))), c.focus_dist)

\* viewport_height * (image_width as f64 / image_height as f64)
ViewportWidth(c, width, height) == FMul(ViewportHeight(c), FDiv(F(width), F(height)))

\* self.focus_dist * (degrees_to_radians(self.defocus_angle / 2.0)).tan()
DefocusRadius(c) == FMul(c.focus_dist, TanDeg(Half(c.defocus_angle)))

\* camera_center - focus_dist * w - viewport_u / 2.0 - viewport_v / 2.0
ViewportUpperLeft(c, w, viewport_u, viewport_v) ==
    VSub(VSub(VSub(c.lookfrom, VScale(c.focus_dist, w)), VDiv(viewport_u, F(2))),
         VDiv(viewport_v, F(2)))

InitializeGrid(c, w, u, v, viewport_u, viewport_v, pixel_delta_u, pixel_delta_v) ==
    [c EXCEPT !.camera_center = c.lookfrom,
              !.w = w, !.u = u, !.v = v,
              !.pixel_delta_u = pixel_delta_u,
              !.pixel_delta_v = pixel_delta_v,
              !.pixel00_loc = VAdd(ViewportUpperLeft(c, w, viewport_u, viewport_v),
                                   VScale(Frac(1, 2), VAdd(pixel_delta_u, pixel_delta_v))),
              !.defocus_disk_u = VScale(DefocusRadius(c), u),
              !.defocus_disk_v = VScale(DefocusRadius(c), v)]

InitializeViewport(c, width, height, w, u, v, viewport_u, viewport_v) ==
    InitializeGrid(c, w, u, v, viewport_u, viewport_v,
                   VDiv(viewport_u, F(width)), VDiv(viewport_v, F(height)))

InitializeV(c, width, height, w, u, v) ==
    InitializeViewport(c, width, height, w, u, v,
                       VScale(ViewportWidth(c, width, height), u),
                       VScale(FMul(ViewportHeight(c), F(0 - 1)), v))

InitializeU(c, width, height, w, u) == InitializeV(c, width, height, w, u, cross(w, u))

InitializeW(c, width, height, w) == InitializeU(c, width, height, w, cross(c.vup, w))

\* Camera::initialize
initialize(c, width, height) ==
    InitializeW(c, width, height, unit(VSub(c.lookfrom, c.lookat)))

\* Every root and tangent initialize takes of c is rational
ExactInitialize(c) ==
    /\ ExactTan(Half(c.vfov))
    /\ ExactTan(Half(c.defocus_angle))
    /\ IsSquare(length_squared(VSub(c.lookfrom, c.lookat)))

\* The fields Camera::new writes before it calls initialize
CameraDefaults ==
    [made |-> TRUE,
     defocus_disk_v |-> zero, defocus_disk_u |-> zero,
     defocus_angle |-> Zero, focus_dist |-> F(10),
     samples_per_pixel |-> 20, max_depth |-> 10,
     pixel_scale_factor |-> FDiv(One, F(20)),
     camera_center |-> zero,
     pixel_delta_u |-> zero, pixel_delta_v |-> zero, pixel00_loc |-> zero,
     vfov |-> F(90),
     lookat |-> V(0, 0, 0 - 1), lookfrom |-> zero,
     u |-> zero, vup |-> V(0, 1, 0), v |-> zero, w |-> zero]

\* Camera::new(image)
CameraOf(width, height) == initialize(CameraDefaults, width, height)

SetApertureStale(c, width, height, defocus_angle, focus_dist) ==
    [c EXCEPT !.defocus_angle = defocus_angle, !.focus_dist = focus_dist]
SetAperture(c, width, height, defocus_angle, focus_dist) ==
    initialize([c EXCEPT !.defocus_angle = defocus_angle, !.focus_dist = focus_dist],
               width, height)

SetVfov(c, width, height, vfov) == initialize([c EXCEPT !.vfov = vfov], width, height)

SetCameraPos(c, width, height, lookfrom, lookat) ==
    initialize([c EXCEPT !.lookat = lookat, !.lookfrom = lookfrom], width, height)

SetSamplesPerPixel(c, samples) ==
    [c EXCEPT !.samples_per_pixel = samples,
              !.pixel_scale_factor = FDiv(One, F(samples))]

SetMaxDepth(c, depth) == [c EXCEPT !.max_depth = depth]

\* Image::new(width, height)
ImageNew(width, height) ==
    /\ call = Idle
    /\ pc = "idle"
    /\ ~image.made
    /\ image' = ImageOf(width, height)
    /\ UNCHANGED <<objects, call, cam, pc, rj, ri, rs, color, writes, drawn>>

\* Camera::new(image)
CameraNew ==
    /\ call = Idle
    /\ pc = "idle"
    /\ image.made
    /\ ~cam.made
    /\ cam' = CameraOf(image.width, image.height)
    /\ UNCHANGED <<objects, call, image, pc, rj, ri, rs, color, writes, drawn>>

\* A call on the camera between its construction and its render
Configure(c) ==
    /\ call = Idle
    /\ pc = "idle"
    /\ cam.made
    /\ cam' = c
    /\ UNCHANGED <<objects, call, image, pc, rj, ri, rs, color, writes, drawn>>

set_aperture(defocus_angle, focus_dist) ==
    /\ cam.made
    /\ ExactInitialize([cam EXCEPT !.defocus_angle = defocus_angle, !.focus_dist = focus_dist])
    /\ Configure(SetAperture(cam, image.width, image.height, defocus_angle, focus_dist))

set_vfov(vfov) ==
    /\ cam.made
    /\ ExactInitialize([cam EXCEPT !.vfov = vfov])
    /\ Configure(SetVfov(cam, image.width, image.height, vfov))

set_camera_pos(lookfrom, lookat) ==
    /\ cam.made
    /\ ExactInitialize([cam EXCEPT !.lookat = lookat, !.lookfrom = lookfrom])
    /\ Configure(SetCameraPos(cam, image.width, image.height, lookfrom, lookat))

set_samples_per_pixel(samples) ==
    /\ cam.made
    /\ Configure(SetSamplesPerPixel(cam, samples))

set_max_depth(depth) ==
    /\ cam.made
    /\ Configure(SetMaxDepth(cam, depth))

-----------------------------------------------------------------------------
(* Camera::render *)

MaxDim == 2
MaxSamples == 2

\* The draws of one sample: the jitter of sample_square and the point of
\* random_in_unit_disk
Jitters == {Frac(0 - 1, 2), Frac(0 - 1, 4), Zero}
DiskPoints == {Vec3(Zero, Zero, Zero)}
SampleDraws == [x : Jitters, y : Jitters, disk : DiskPoints]

\* rng.random_range(-0.5..0.5)
InSquare(x) == FLe(Frac(0 - 1, 2), x) /\ FLt(x, Frac(1, 2))
\* Vec3::random_in_unit_disk: a point of [-1, 1) x [-1, 1) x {0} inside the unit circle
InDisk(p) == InRange(p) /\ p[3] = Zero /\ FLt(length_squared(p), One)
DrawnSample(s) == InSquare(s.x) /\ InSquare(s.y) /\ InDisk(s.disk)

\* Camera::defocus_disk_sample
defocus_disk_sample(c, rand_disk) ==
    VAdd(VAdd(c.camera_center, VScale(rand_disk[1], c.defocus_disk_u)),
         VScale(rand_disk[2], c.defocus_disk_v))

\* pixel00_loc + (i + offset.x) * pixel_delta_u + (j + offset.y) * pixel_delta_v
PixelSample(c, i, j, s) ==
    VAdd(VAdd(c.pixel00_loc, VScale(FAdd(F(i), s.x), c.pixel_delta_u)),
         VScale(FAdd(F(j), s.y), c.pixel_delta_v))

RayOrigin(c, s) ==
    IF FLe(c.defocus_angle, Zero) THEN c.camera_center
    ELSE defocus_disk_sample(c, s.disk)

RayFrom(ray_origin, pixel_sample) == Ray(ray_origin, VSub(pixel_sample, ray_origin))

\* Camera::get_ray(i, j)
get_ray(c, i, j, s) == RayFrom(RayOrigin(c, s), PixelSample(c, i, j, s))

\* for j in 0..self.image.height / for i in 0..self.image.width / for _ in 0..samples
RowsLeft(j, height) == j < height
PixelsLeftInclusive(i, width) == i <= width
PixelsLeft(i, width) == i < width
SamplesLeft(n, samples_per_pixel) == n < samples_per_pixel

\* Camera::render is entered
RenderStart ==
    /\ pc = "idle"
    /\ cam.made
    /\ cam.samples_per_pixel <= MaxSamples
    /\ cam.max_depth <= MaxDepth
    /\ pc' = "render"
    /\ rj' = 0
    /\ ri' = 0
    /\ rs' = 0
    /\ color' = zero
    /\ UNCHANGED <<objects, call, image, cam, writes, drawn>>

AtPixel ==
    /\ pc = "render"
    /\ RowsLeft(rj, image.height)
    /\ PixelsLeft(ri, image.width)

Accumulate(traced) ==
    /\ call' = traced
    /\ color' = VAdd(color, traced.res.color)
    /\ rs' = rs + 1
    /\ UNCHANGED <<objects, image, cam, pc, rj, ri, writes, drawn>>

SampleRay(r, tape) ==
    /\ Short(r.origin)
    /\ Short(r.dir)
    /\ ExactPath(r, cam.max_depth, objects, tape) = TRUE
    /\ \E traced \in {RayColorCall(r, cam.max_depth, tape)} : Accumulate(traced)

\* One pass of the sample loop:
\* color = color + Camera::ray_color(&self.get_ray(i, j), self.max_depth, world)
RenderSample(s, tape) ==
    /\ AtPixel
    /\ SamplesLeft(rs, cam.samples_per_pixel)
    /\ DrawnSample(s)
    /\ \A k \in 1..Len(tape) : DrawOk(tape[k])
    /\ \E r \in {get_ray(cam, ri, rj, s)} : SampleRay(r, tape)

\* self.image.set_pixel(i, j, c): the write of the cell, or the panic of the index
WritePixel(c) ==
    /\ writes' = Append(writes, <<ri, rj>>)
    /\ IF InBounds(image, ri, rj)
       THEN /\ image' = set_pixel(image, ri, rj, c)
            /\ pc' = pc
            /\ ri' = ri + 1
       ELSE /\ pc' = "panic"
            /\ UNCHANGED <<image, ri>>
    /\ rs' = 0
    /\ color' = zero
    /\ call' = Idle
    /\ UNCHANGED <<objects, cam, rj, drawn>>

\* The samples of the pixel are taken:
\* color = color * self.pixel_scale_factor; self.image.set_pixel(i, j, color.into())
RenderPixel ==
    /\ AtPixel
    /\ ~SamplesLeft(rs, cam.samples_per_pixel)
    /\ WritePixel(FromVec3(VScale(cam.pixel_scale_factor, color)))

\* The inner loop is over: the next j
RenderRow ==
    /\ pc = "render"
    /\ RowsLeft(rj, image.height)
    /\ ~PixelsLeft(ri, image.width)
    /\ rj' = rj + 1
    /\ ri' = 0
    /\ UNCHANGED <<objects, call, image, cam, pc, rs, color, writes, drawn>>

Drawn(img) == [done |-> TRUE, image |-> img]

\* The loops are over: renderer.draw(&self.image)
RenderDraw ==
    /\ pc = "render"
    /\ ~RowsLeft(rj, image.height)
    /\ drawn' = Drawn(image)
    /\ pc' = "done"
    /\ UNCHANGED <<objects, call, image, cam, rj, ri, rs, color, writes>>

\* A sphere of negative radius the camera stands on
Hollow == SphereNewMat(V(0, 0, 0 - 3), F(0 - 3), Metal(TraceAlbedo, Zero))

RenderWorlds == {<<>>, <<Shell>>, <<Hollow>>}
RenderDepths == {0 - 1, 0, 1}

InitRender ==
    /\ objects \in RenderWorlds
    /\ call = Idle
    /\ image = NoImage
    /\ cam = NoCam
    /\ pc = "idle"
    /\ rj = 0
    /\ ri = 0
    /\ rs = 0
    /\ color = zero
    /\ writes = <<>>
    /\ drawn = NotDrawn

NextRender ==
    \/ \E r \in TraceRays, depth \in (0 - 1)..MaxDepth :
           \E tape \in Tapes(IF depth > 0 THEN depth ELSE 0) : CallRayColor(r, depth, tape)
    \/ \E width \in 0..MaxDim, height \in 0..MaxDim : ImageNew(width, height)
    \/ CameraNew
    \/ \E samples \in 0..MaxSamples : set_samples_per_pixel(samples)
    \/ \E depth \in RenderDepths : set_max_depth(depth)
    \/ RenderStart
    \/ \E s \in SampleDraws :
           \E tape \in Tapes(IF cam.made /\ cam.max_depth > 0 /\ cam.max_depth <= MaxDepth
                             THEN cam.max_depth ELSE 0) : RenderSample(s, tape)
    \/ RenderPixel
    \/ RenderRow
    \/ RenderDraw

SpecRender == InitRender /\ [][NextRender]_vars

\* The camera's configuration alone
CamApertures == {<<Zero, F(10)>>, <<F(90), F(2)>>}
CamFovs == {F(90), F(270)}
CamPositions == {<<V(0, 0, 0), V(0, 0, 0 - 1)>>,
                 <<V(3, 0, 0 - 4), V(0, 0, 0)>>,
                 <<V(0, 1, 0), V(0, 1, 0)>>,
                 <<V(0, 3, 4), V(0, 0, 0)>>}      \* looks down, oblique to vup
CamSamples == {0, 4, 20}
CamDepths == {0, 10}

InitCam == InitGeo

NextCam ==
    \/ \E width \in 0..MaxDim, height \in 0..MaxDim : ImageNew(width, height)
    \/ CameraNew
    \/ \E a \in CamApertures : set_aperture(a[1], a[2])
    \/ \E vfov \in CamFovs : set_vfov(vfov)
    \/ \E p \in CamPositions : set_camera_pos(p[1], p[2])
    \/ \E samples \in CamSamples : set_samples_per_pixel(samples)
    \/ \E depth \in CamDepths : set_max_depth(depth)

SpecCam == InitCam /\ [][NextCam]_vars

-----------------------------------------------------------------------------
(* The conversion of a linear colour to an output colour, called on its own *)

\* The values of a channel: negative, zero, inside (0, 1), one and beyond, not finite
ColorChannels ==
    {FNeg(INFINITY), F(0 - 1), Zero, Frac(1, 65536), Frac(1, 100), Frac(1, 4),
     Frac(1, 2), Frac(9, 10), Frac(9999, 10000), One, F(2), INFINITY, NaN}

\* let c: Color = val.into()
CallFromVec3(val) ==
    /\ call = Idle
    /\ pc = "idle"
    /\ call' = [fn |-> "from_vec3", val |-> val, res |-> FromVec3(val)]
    /\ UNCHANGED <<objects, image, cam, pc, rj, ri, rs, color, writes, drawn>>

NextColor == \E x \in ColorChannels, y \in ColorChannels, z \in ColorChannels :
                 CallFromVec3(Vec3(x, y, z))

SpecColor == InitGeo /\ [][NextColor]_vars

-----------------------------------------------------------------------------
(* The background: rays that leave the scene *)

SkyWorlds == {<<>>, <<Mirror>>}
SkyOrigins == {V(0, 0, 0), V(5, 0, 0), V(0, 7, 1), V(0 - 2, 3, 0)}
SkyDirs == {V(0, 1, 0), V(0, 2, 0), V(0, 0 - 1, 0), V(0, 0 - 3, 0), V(3, 4, 0),
            V(6, 8, 0), V(4, 0 - 3, 0), V(1, 0, 0), V(0, 0, 1), V(0, 3, 4), V(0, 0, 0 - 1)}

InitSky ==
    /\ objects \in SkyWorlds
    /\ call = Idle
    /\ image = NoImage
    /\ cam = NoCam
    /\ pc = "idle"
    /\ rj = 0
    /\ ri = 0
    /\ rs = 0
    /\ color = zero
    /\ writes = <<>>
    /\ drawn = NotDrawn

NextSky ==
    \E origin \in SkyOrigins, dir \in SkyDirs, depth \in 1..MaxDepth :
        \E tape \in Tapes(depth) : CallRayColor(Ray(origin, dir), depth, tape)

SpecSky == InitSky /\ [][NextSky]_vars

-----------------------------------------------------------------------------
(* Image::fill_rect *)

\* if y + height >= self.height || x + width >= self.width || x < 0 || y < 0
FillRectPanics(img, x, y, width, height) ==
    y + height >= img.height \/ x + width >= img.width \/ x < 0 \/ y < 0

\* iter_mut().skip(n).take(len) passes over the index k, counted from 0
SkipTake(k, n, len) == k >= n /\ k < n + len

\* The rows skip(y).take(height), and in them the pixels skip(x).take(width), are set
FillRectOf(img, x, y, width, height, c) ==
    [img EXCEPT !.pixels =
        [py \in 1..Len(img.pixels) |->
            [px \in 1..Len(img.pixels[py]) |->
                IF SkipTake(py - 1, y, height) /\ SkipTake(px - 1, x, width)
                THEN c ELSE img.pixels[py][px]]]]

FillRectCall(x, y, width, height, c) ==
    [fn |-> "fill_rect", x |-> x, y |-> y, width |-> width, height |-> height,
     c |-> c, before |-> image]

FillColors == {Color(255, 0, 0), Color(0, 0, 255)}

\* image.fill_rect(x, y, width, height, c) on an image no camera holds yet; the
\* model follows a second call on an image that the first call has painted
fill_rect(x, y, width, height, c) ==
    /\ pc = "idle"
    /\ image.made
    /\ ~cam.made
    /\ call = Idle \/ (call.fn = "fill_rect" /\ call.before = ImageOf(image.width, image.height))
    /\ call' = FillRectCall(x, y, width, height, c)
    /\ IF FillRectPanics(image, x, y, width, height)
       THEN pc' = "panic" /\ image' = image
       ELSE pc' = pc /\ image' = FillRectOf(image, x, y, width, height, c)
    /\ UNCHANGED <<objects, cam, rj, ri, rs, color, writes, drawn>>

NextFill ==
    \/ \E width \in 0..(MaxDim + 1), height \in 0..(MaxDim + 1) : ImageNew(width, height)
    \/ \E x \in 0..MaxDim, y \in 0..MaxDim, width \in 0..(MaxDim + 1),
          height \in 0..(MaxDim + 1), c \in FillColors : fill_rect(x, y, width, height, c)

SpecFill == InitGeo /\ [][NextFill]_vars

-----------------------------------------------------------------------------
(* Properties of the geometry *)

\* t lies strictly inside (ray_tmin, ray_tmax)
Inside(t, ray_tmin, ray_tmax) == FLt(ray_tmin, t) /\ FLt(t, ray_tmax)

\* What each child of the world reports for the ray and interval of the last call
ChildHits ==
    {ObjHit(objects[k], call.r, call.ray_tmin, call.ray_tmax) : k \in 1..Len(objects)}

InsideChildHits ==
    {h \in ChildHits : h.hit /\ Inside(h.rec.t, call.ray_tmin, call.ray_tmax)}

Orders(n) == {p \in [1..n -> 1..n] : \A i, j \in 1..n : p[i] = p[j] => i = j}

Reordered(p) == [k \in 1..Len(objects) |-> objects[p[k]]]

\* C1: the list's hit is NoHit exactly when no child hits inside the interval;
\* otherwise it is one of the children's hits, its t the smallest of all the
\* children's hits inside the interval, and the same t results from every
\* order of the children.
C1_ClosestHit ==
    call.fn = "list_hit" =>
        /\ (call.res = NoHit) <=> (InsideChildHits = {})
        /\ call.res.hit =>
            /\ call.res \in InsideChildHits
            /\ \A h \in InsideChildHits : FLe(call.res.rec.t, h.rec.t)
        /\ \A p \in Orders(Len(objects)) :
            LET other == ListHit(Reordered(p), call.r, call.ray_tmin, call.ray_tmax)
            IN  /\ other.hit = call.res.hit
                /\ other.hit => other.rec.t = call.res.rec.t

\* The farther sphere was added first, both are hit, the closer one is returned
C1_Witness ==
    /\ call.fn = "list_hit"
    /\ Len(objects) = 2
    /\ LET h1 == ObjHit(objects[1], call.r, call.ray_tmin, call.ray_tmax)
           h2 == ObjHit(objects[2], call.r, call.ray_tmin, call.ray_tmax)
       IN  /\ h1.hit /\ h2.hit
           /\ FLt(h2.rec.t, h1.rec.t)
           /\ call.res = h2

\* C2: for a ray of non-zero direction and ray_tmin < ray_tmax, Sphere::hit is
\* NoHit when the discriminant is negative; otherwise its t is the smaller root
\* if that lies strictly inside (ray_tmin, ray_tmax), else the larger root if
\* that one does, else NoHit; a returned t is always strictly inside.
C2_SphereRoots ==
    (/\ call.fn = "sphere_hit"
     /\ length_squared(call.r.dir) # Zero
     /\ FLt(call.ray_tmin, call.ray_tmax)) =>
        LET d == discriminant(call.s, call.r)
            roots == SphereRoots(call.s, call.r)
        IN  /\ IF FLt(d, Zero) THEN call.res = NoHit
               ELSE IF Inside(roots[1], call.ray_tmin, call.ray_tmax)
                    THEN call.res.hit /\ call.res.rec.t = roots[1]
               ELSE IF Inside(roots[2], call.ray_tmin, call.ray_tmax)
                    THEN call.res.hit /\ call.res.rec.t = roots[2]
               ELSE call.res = NoHit
            /\ call.res.hit => Inside(call.res.rec.t, call.ray_tmin, call.ray_tmax)

\* The smaller root equals ray_tmin and the larger root is the one reported
C2_Witness ==
    /\ call.fn = "sphere_hit"
    /\ length_squared(call.r.dir) # Zero
    /\ FLt(Zero, discriminant(call.s, call.r))
    /\ SphereRoots(call.s, call.r)[1] = call.ray_tmin
    /\ call.res.hit
    /\ call.res.rec.t = SphereRoots(call.s, call.r)[2]

\* (point - center) / radius of the hit of the last call
OutwardNormal == VDiv(VSub(call.res.rec.point, call.s.center), call.s.radius)

FaceNormalHolds ==
    /\ call.res.rec.front_face <=> FLt(dot(call.r.dir, OutwardNormal), Zero)
    /\ call.res.rec.normal = IF call.res.rec.front_face THEN OutwardNormal
                             ELSE VScale(F(0 - 1), OutwardNormal)
    /\ FLe(dot(call.r.dir, call.res.rec.normal), Zero)

\* C3: every Hit of Sphere::hit has front_face true exactly when
\* dot(ray.direction, outward_normal) < 0, its normal the outward normal when
\* front_face and the negated outward normal otherwise, and
\* dot(ray.direction, normal) <= 0.
C3_FaceNormal ==
    (call.fn = "sphere_hit" /\ call.res.hit) => FaceNormalHolds

\* The same for a ray of non-zero direction and a sphere of non-zero radius
FaceNormalNonDegenerate ==
    (/\ call.fn = "sphere_hit"
     /\ call.res.hit
     /\ length_squared(call.r.dir) # Zero
     /\ call.s.radius # Zero) => FaceNormalHolds

-----------------------------------------------------------------------------
(* Properties of the materials *)

\* The random unit vector of the last scatter call
CallRnd == random_unit_vector(call.p)

\* normalize(reflect(incident, normal)) + fuzz * random_unit_vector
PerturbedReflection ==
    VAdd(unit(reflect(call.r.dir, call.rec.normal)), VScale(call.s.mat.fuzziness, CallRnd))

\* C6: Metal::scatter is absorbed (None) exactly when the perturbed reflection d
\* has dot(d, normal) < 0; otherwise it returns the ray from the hit point in
\* direction d with the albedo as attenuation.
C6_MetalAbsorbs ==
    (call.fn = "scatter" /\ call.s.mat.kind = "Metal") =>
        /\ (call.res = None) <=> FLt(dot(PerturbedReflection, call.rec.normal), Zero)
        /\ call.res # None =>
               call.res = Some(call.s.mat.albedo, Ray(call.rec.point, PerturbedReflection))

\* A fuzzed reflection that points into the surface is absorbed
C6_Witness ==
    /\ call.fn = "scatter"
    /\ call.s.mat.kind = "Metal"
    /\ FLt(dot(PerturbedReflection, call.rec.normal), Zero)
    /\ call.res = None

\* A fuzzed reflection along the surface (dot = 0) is scattered
C6_Grazing ==
    /\ call.fn = "scatter"
    /\ call.s.mat.kind = "Metal"
    /\ dot(PerturbedReflection, call.rec.normal) = Zero
    /\ call.res.some

\* normal + random unit vector
LambertianSum == VAdd(call.rec.normal, CallRnd)

\* C7: Lambertian::scatter always scatters, with the albedo as attenuation and
\* the direction normal + random unit vector, or the bare normal when every
\* component of that sum is within 1e-8 of zero; Dielectric::scatter always
\* scatters with attenuation (1, 1, 1).
C7_NeverAbsorbed ==
    /\ (call.fn = "scatter" /\ call.s.mat.kind = "Lambertian") =>
           /\ call.res.some
           /\ call.res.attenuation = call.s.mat.albedo
           /\ call.res.scattered.origin = call.rec.point
           /\ call.res.scattered.dir =
                  IF \A i \in 1..3 : Below1e8th(LambertianSum[i])
                  THEN call.rec.normal ELSE LambertianSum
    /\ (call.fn = "scatter" /\ call.s.mat.kind = "Dielectric") =>
           /\ call.res.some
           /\ call.res.attenuation = Vec3(One, One, One)

\* The random unit vector cancels the normal and the bare normal is the direction
C7_Witness ==
    /\ call.fn = "scatter"
    /\ call.s.mat.kind = "Lambertian"
    /\ LambertianSum = zero
    /\ call.res.some
    /\ call.res.scattered.dir = call.rec.normal

\* A dielectric refracts, reflects totally, and reflects by Schlick's reflectance
DielectricRefracts ==
    /\ call.fn = "scatter"
    /\ call.s.mat.kind = "Dielectric"
    /\ FLt(dot(call.res.scattered.dir, call.rec.normal), Zero)

DielectricReflects ==
    /\ call.fn = "scatter"
    /\ call.s.mat.kind = "Dielectric"
    /\ FGt(dot(call.res.scattered.dir, call.rec.normal), Zero)
    /\ call.u # Zero

-----------------------------------------------------------------------------
(* Properties of the integrator *)

AllBlack(img) ==
    \A y \in 0..(img.height - 1), x \in 0..(img.width - 1) : get_pixel(img, x, y) = Black

\* C4: ray_color called with depth <= 0 returns black for every ray and every
\* scene, with no intersection test and no scatter call made; and so a render with
\* max_depth <= 0 hands an all-black image to the renderer.
C4_DepthExhausted ==
    /\ (call.fn = "ray_color" /\ call.depth <= 0) => call.res = Traced(zero, 0, 0)
    /\ (drawn.done /\ cam.max_depth <= 0) => AllBlack(drawn.image)

\* A render at max_depth <= 0 of a scene that holds a sphere has written a pixel and
\* is tracing the next sample
C4_Witness ==
    /\ pc = "render"
    /\ call.fn = "ray_color"
    /\ call.depth <= 0
    /\ objects # <<>>
    /\ Len(writes) >= 1

\* The roots of the sphere s on the ray r, as a set; empty under a negative discriminant
RootsOn(s, r) ==
    IF FLt(discriminant(s, r), Zero) THEN {}
    ELSE {SphereRoots(s, r)[1], SphereRoots(s, r)[2]}

\* No sphere of the world meets the ray beyond t = 0.0001
NothingBeyond(world, r) ==
    \A k \in 1..Len(world) : \A root \in RootsOn(world[k], r) : ~FGt(root, TMIN)

\* Some sphere of the world meets the ray at a t in [0, 0.0001]
TouchedWithin(world, r) ==
    \E k \in 1..Len(world) : \E root \in RootsOn(world[k], r) :
        FGe(root, Zero) /\ FLe(root, TMIN)

C5_OfScatter(sr) ==
    IF sr.some
    THEN call.res.color =
             VMul(sr.attenuation,
                  RayColor(sr.scattered, call.depth - 1, objects, Tail(call.tape)).color)
    ELSE call.res.color = zero

C5_OfHit(h) ==
    h.hit =>
        /\ FGt(h.rec.t, TMIN)
        /\ \A rnd \in {random_unit_vector(call.tape[1].p)} :
               \A sr \in {Scatter(h.rec.mat, call.r, h.rec, rnd, call.tape[1].u)} :
                   C5_OfScatter(sr)

\* C5: for depth > 0, when the scene reports a hit (at a t beyond 0.0001) and the
\* material struck scatters, ray_color returns the attenuation times, component by
\* component, ray_color of the scattered ray at depth - 1; when the material absorbs,
\* black. A ray no surface meets beyond t = 0.0001 is a miss: it gets the background.
C5_Bounce ==
    (call.fn = "ray_color" /\ call.depth > 0) =>
        /\ \A h \in {ListHit(objects, call.r, TMIN, INFINITY)} : C5_OfHit(h)
        /\ NothingBeyond(objects, call.r) =>
               call.res = Traced(Background(call.r), 1, 0)

\* A ray that is scattered and then leaves the scene: the colour is the attenuated sky
C5_Witness ==
    /\ call.fn = "ray_color"
    /\ call.depth > 0
    /\ call.res.scatters >= 1
    /\ call.res.hits = call.res.scatters + 1
    /\ call.res.color # zero

\* The material struck absorbs the ray
C5_Absorbed ==
    /\ call.fn = "ray_color"
    /\ call.depth > 0
    /\ call.res.scatters = 1
    /\ call.res.hits = 1

\* The ray starts on a surface that it meets nowhere else ahead
C5_Acne ==
    /\ call.fn = "ray_color"
    /\ call.depth > 0
    /\ TouchedWithin(objects, call.r)
    /\ NothingBeyond(objects, call.r)

\* Two bounces
C5_Twice == call.fn = "ray_color" /\ call.res.scatters = 2

-----------------------------------------------------------------------------
(* Properties of the render *)

Cells(img) == (0..(img.width - 1)) \X (0..(img.height - 1))

C8_Cells ==
    /\ pc # "panic"
    /\ \A k \in 1..Len(writes) : writes[k] \in Cells(image)
    /\ \A k, l \in 1..Len(writes) : writes[k] = writes[l] => k = l
    /\ drawn.done =>
           /\ Len(writes) = image.width * image.height
           /\ drawn.image = image

C8_OwnCell ==
    pc = "render" =>
        \A c \in Cells(image) :
            c # <<ri, rj>> => get_pixel(image', c[1], c[2]) = get_pixel(image, c[1], c[2])

\* C8: render hands set_pixel every cell (x, y) with 0 <= x < width and
\* 0 <= y < height exactly once and no cell outside those bounds, the write of a
\* pixel changes no cell but its own, and draw is given the image only when all
\* width * height cells are written.
C8_RenderWrites == [](C8_Cells) /\ [][C8_OwnCell]_vars

\* A 2 x 2 image drawn with a pixel that is not black
C8_Witness ==
    /\ drawn.done
    /\ image.width = 2
    /\ image.height = 2
    /\ Len(writes) = 4
    /\ ~AllBlack(drawn.image)

\* C9: a render never draws from an image of zero width or height, from a camera
\* of zero samples per pixel, or of a world with a sphere of radius <= 0, since
\* each of these is refused when it is constructed or set.
C9_InvalidRejected ==
    drawn.done =>
        /\ image.width >= 1
        /\ image.height >= 1
        /\ cam.samples_per_pixel >= 1
        /\ \A k \in 1..Len(objects) : FGt(objects[k].radius, Zero)

\* Each invalid configuration alone reaches draw
C9_ZeroImageDrawn ==
    drawn.done /\ image.width = 0 /\ cam.samples_per_pixel >= 1 /\ objects = <<>>
C9_ZeroSamplesDrawn ==
    drawn.done /\ image.width >= 1 /\ image.height >= 1 /\ cam.samples_per_pixel = 0
    /\ objects = <<>>
C9_HollowDrawn ==
    drawn.done /\ image.width >= 1 /\ image.height >= 1 /\ cam.samples_per_pixel >= 1
    /\ objects = <<Hollow>>

-----------------------------------------------------------------------------
(* Properties of the camera *)

\* C10: once the camera is made, and after any calls of its setters, every derived
\* field holds what initialize computes from the inputs the camera holds now, and
\* pixel_scale_factor is 1 / samples_per_pixel.
C10_DerivedFresh ==
    cam.made =>
        /\ cam = initialize(cam, image.width, image.height)
        /\ cam.camera_center = cam.lookfrom
        /\ cam.pixel_scale_factor = FDiv(One, F(cam.samples_per_pixel))

\* Every setter has changed its input on a 2 x 1 image
C10_Witness ==
    /\ cam.made
    /\ image.width = 2
    /\ image.height = 1
    /\ cam.vfov = F(270)
    /\ cam.defocus_angle = F(90)
    /\ cam.focus_dist = F(2)
    /\ cam.lookfrom = V(3, 0, 0 - 4)
    /\ cam.samples_per_pixel = 4
    /\ cam.max_depth = 0

-----------------------------------------------------------------------------
(* Properties of the colour conversion *)

\* The channels of an output colour, in the order of the channels of the Vec3
ChannelsOf(c) == <<c.r, c.g, c.b>>

\* n = floor(256 * sqrt(x)) for a finite 0 < x < 1: n^2 <= 65536 * x < (n + 1)^2.
\* The clamp to 0.9999 leaves this n as it is: 256 * 0.9999 = 255.97...
IsGammaFloor(n, x) ==
    /\ n * n * x[2] <= 65536 * x[1]
    /\ 65536 * x[1] < (n + 1) * (n + 1) * x[2]

C11_OfChannel(x, n) ==
    /\ n \in 0..255
    /\ ~FGt(x, Zero) => n = 0
    /\ FGe(x, One) => n = 255
    /\ (FGt(x, Zero) /\ FLt(x, One)) => IsGammaFloor(n, x)

\* C11: the conversion maps each channel x to floor(256 * clamp(g, 0, 0.9999)) with
\* g = sqrt(x) for x > 0 and 0 otherwise: every output channel is in 0..255, an
\* input that is not positive gives 0, an input >= 1 gives 255, and a larger
\* input never gives a smaller output.
C11_GammaClamp ==
    call.fn = "from_vec3" =>
        /\ \A i \in 1..3 : C11_OfChannel(call.val[i], ChannelsOf(call.res)[i])
        /\ \A i, j \in 1..3 :
               FLe(call.val[i], call.val[j]) =>
                   ChannelsOf(call.res)[i] <= ChannelsOf(call.res)[j]

\* A negative, an inner and a clamped channel in one colour
C11_Witness ==
    /\ call.fn = "from_vec3"
    /\ call.val = Vec3(F(0 - 1), Frac(1, 4), Frac(9999, 10000))
    /\ call.res = Color(0, 128, 255)

-----------------------------------------------------------------------------
(* Properties of the background *)

\* The scene reports no hit for the ray r
Misses(r) == ListHit(objects, r, TMIN, INFINITY) = NoHit

\* (1 - a) * (1, 1, 1) + a * (0.5, 0.7, 1.0) with a = 0.5 * (y + 1)
Gradient(y) ==
    VAdd(VScale(FSub(One, FMul(Frac(1, 2), FAdd(y, One))), Vec3(One, One, One)),
         VScale(FMul(Frac(1, 2), FAdd(y, One)), Vec3(Frac(1, 2), Frac(7, 10), One)))

\* The direction is k * (0, y, 0) for a k > 0 and y = 1 or y = -1
Along(dir, y) == dir[1] = Zero /\ dir[3] = Zero /\ FGt(FMul(F(y), dir[2]), Zero)

\* The same ray from another origin, with its direction made longer or shorter
Moved(r) ==
    {Ray(o, VScale(k, r.dir)) : o \in SkyOrigins, k \in {Frac(1, 2), F(2), F(3)}}

\* C12: on a miss with depth > 0, ray_color returns (1-a)*(1,1,1) + a*(0.5,0.7,1.0)
\* with a = 0.5 * (unit_direction.y + 1): straight up gives exactly (0.5, 0.7, 1.0),
\* straight down exactly (1, 1, 1), and neither the origin of the ray nor the
\* length of its direction changes the result.
C12_Background ==
    (call.fn = "ray_color" /\ call.depth > 0 /\ Misses(call.r)) =>
        /\ call.res.color = Gradient(unit(call.r.dir)[2])
        /\ Along(call.r.dir, 1) => call.res.color = Vec3(Frac(1, 2), Frac(7, 10), One)
        /\ Along(call.r.dir, 0 - 1) => call.res.color = Vec3(One, One, One)
        /\ \A m \in Moved(call.r) :
               Misses(m) => RayColor(m, call.depth, objects, <<>>).color = call.res.color

\* A ray from off the origin with the direction (0, 2, 0) gets the blue endpoint
C12_Witness ==
    /\ call.fn = "ray_color"
    /\ call.depth > 0
    /\ call.r = Ray(V(5, 0, 0), V(0, 2, 0))
    /\ call.res = Traced(Vec3(Frac(1, 2), Frac(7, 10), One), 1, 0)

\* A ray with the direction (0, -3, 0) past a sphere gets white
C12_White ==
    /\ call.fn = "ray_color"
    /\ objects # <<>>
    /\ call.r.dir = V(0, 0 - 3, 0)
    /\ call.res.color = Vec3(One, One, One)

-----------------------------------------------------------------------------
(* Properties of the scan of the children *)

\* The hits the children before the k-th reported to the last call
EarlierHits(k) ==
    {h \in {ObjHit(objects[j], call.r, call.ray_tmin, call.ray_tmax) : j \in 1..(k - 1)} :
        h.hit}

\* max is the smallest t of the hits found before the k-th child, and the
\* caller's upper bound when there is none
BestSoFar(k, max) ==
    /\ \A h \in EarlierHits(k) : FLe(max, h.rec.t)
    /\ IF EarlierHits(k) = {} THEN max = call.ray_tmax
       ELSE \E h \in EarlierHits(k) : max = h.rec.t

\* C13: the scan asks every child with the lower bound it was given and with the
\* smallest t of the hits of the earlier children as the upper bound (the
\* caller's upper bound until the first hit): no child is asked beyond the best
\* hit so far.
C13_ShrinkingBound ==
    call.fn = "list_hit" =>
        /\ Len(call.queries) = Len(objects)
        /\ \A k \in 1..Len(call.queries) :
               /\ call.queries[k][1] = call.ray_tmin
               /\ BestSoFar(k, call.queries[k][2])

\* What the scan does: every child is asked with the caller's two bounds
ScanBoundsFixed ==
    call.fn = "list_hit" =>
        /\ Len(call.queries) = Len(objects)
        /\ \A k \in 1..Len(call.queries) :
               call.queries[k] = <<call.ray_tmin, call.ray_tmax>>

\* The second child is asked up to the caller's bound, beyond the hit of the first
ScanBeyondBest ==
    /\ call.fn = "list_hit"
    /\ Len(objects) = 2
    /\ EarlierHits(2) # {}
    /\ \E h \in EarlierHits(2) : FLt(h.rec.t, call.queries[2][2])

-----------------------------------------------------------------------------
(* Properties of the bounce chain *)

\* The recursive call after a scatter is the call at depth - 1, once more counted
C14_OfScatter(sr) ==
    sr.some =>
        \A sub \in {RayColor(sr.scattered, call.depth - 1, objects, Tail(call.tape))} :
            /\ call.res.hits = sub.hits + 1
            /\ call.res.scatters = sub.scatters + 1

C14_OfHit(h) ==
    h.hit =>
        \A rnd \in {random_unit_vector(call.tape[1].p)} :
            \A sr \in {Scatter(h.rec.mat, call.r, h.rec, rnd, call.tape[1].u)} :
                C14_OfScatter(sr)

\* C14: for max_depth = d >= 0 the chain of one primary ray ends: ray_color makes
\* at most d intersection tests and at most d scatter calls, each recursive call
\* is made at the depth less one, and the chain ends by a miss that returns the
\* background, by an absorption, or by the depth reaching zero.
C14_ChainEnds ==
    (call.fn = "ray_color" /\ call.depth >= 0) =>
        /\ call.res.hits <= call.depth
        /\ call.res.scatters <= call.depth
        /\ call.res.scatters <= call.res.hits
        /\ call.res.hits <= call.res.scatters + 1
        /\ \/ call.res.hits = call.res.scatters + 1      \* the last test was a miss
           \/ call.res.color = zero                      \* absorbed
           \/ call.res.scatters = call.depth             \* the depth reached zero
        /\ call.depth > 0 =>
               \A h \in {ListHit(objects, call.r, TMIN, INFINITY)} : C14_OfHit(h)

\* Two bounces use up the depth 2: the chain ends with the depth at zero
C14_Witness ==
    /\ call.fn = "ray_color"
    /\ call.depth = 2
    /\ call.res.hits = 2
    /\ call.res.scatters = 2
    /\ Len(call.tape) = 2

-----------------------------------------------------------------------------
(* Properties of the view basis *)

\* lookfrom != lookat and the view direction is not parallel to vup
ViewDefined ==
    /\ cam.made
    /\ cam.lookfrom # cam.lookat
    /\ cross(cam.vup, VSub(cam.lookfrom, cam.lookat)) # zero

\* C15: after initialize, for lookfrom != lookat and a view direction not parallel
\* to up, w = normalize(lookfrom - lookat), u = normalize(cross(up, w)) and
\* v = cross(w, u): u, v and w have unit length and are perpendicular to each
\* other, whether or not the view direction is perpendicular to up.
C15_Orthonormal ==
    ViewDefined =>
        /\ cam.w = unit(VSub(cam.lookfrom, cam.lookat))
        /\ cam.u = unit(cross(cam.vup, cam.w))
        /\ cam.v = cross(cam.w, cam.u)
        /\ length_squared(cam.u) = One
        /\ length_squared(cam.v) = One
        /\ length_squared(cam.w) = One
        /\ dot(cam.u, cam.v) = Zero
        /\ dot(cam.v, cam.w) = Zero
        /\ dot(cam.w, cam.u) = Zero

\* What initialize builds: w of unit length, u = cross(vup, w) as it comes, and
\* v = cross(w, u); the three are perpendicular to each other
BasisPerpendicular ==
    ViewDefined =>
        /\ cam.w = unit(VSub(cam.lookfrom, cam.lookat))
        /\ cam.u = cross(cam.vup, cam.w)
        /\ cam.v = cross(cam.w, cam.u)
        /\ length_squared(cam.w) = One
        /\ dot(cam.u, cam.v) = Zero
        /\ dot(cam.v, cam.w) = Zero
        /\ dot(cam.w, cam.u) = Zero

\* The camera looks down from (0, 3, 4): u and v have the length 4/5
BasisShort ==
    /\ ViewDefined
    /\ cam.lookfrom = V(0, 3, 4)
    /\ length_squared(cam.u) = Frac(16, 25)
    /\ length_squared(cam.v) = Frac(16, 25)

\* With the view direction perpendicular to up the basis is orthonormal
BasisLevel ==
    /\ ViewDefined
    /\ cam.lookfrom = V(3, 0, 0 - 4)
    /\ length_squared(cam.u) = One
    /\ length_squared(cam.v) = One

-----------------------------------------------------------------------------
(* Properties of fill_rect *)

\* The rectangle of the last call lies within the image
RectWithin ==
    /\ call.x + call.width <= call.before.width
    /\ call.y + call.height <= call.before.height

\* The cell (px, py) lies in the rectangle of the last call
InRect(px, py) ==
    /\ call.x <= px
    /\ px < call.x + call.width
    /\ call.y <= py
    /\ py < call.y + call.height

\* The rectangle's cells hold the colour and every other cell is as before
RectFilled ==
    /\ pc # "panic"
    /\ \A px \in 0..(image.width - 1), py \in 0..(image.height - 1) :
           get_pixel(image, px, py) =
               IF InRect(px, py) THEN call.c ELSE get_pixel(call.before, px, py)

\* C16: fill_rect on a rectangle within the image (x + width <= image width and
\* y + height <= image height, the rectangles touching the right or bottom edge
\* and the whole image included) sets exactly the rectangle's pixels to the colour
\* and leaves the others; on a rectangle past the image it panics and leaves
\* every pixel.
C16_FillRect ==
    call.fn = "fill_rect" =>
        IF RectWithin THEN RectFilled
        ELSE pc = "panic" /\ image = call.before

\* What fill_rect does: it fills the rectangles that end before the right and the
\* bottom edge and panics on every other, leaving the image as it was
FillRectInner ==
    call.fn = "fill_rect" =>
        IF call.x + call.width < call.before.width
           /\ call.y + call.height < call.before.height
        THEN RectFilled
        ELSE pc = "panic" /\ image = call.before

\* The fill of the whole image panics
FillWholePanics ==
    /\ call.fn = "fill_rect"
    /\ call.before.width = 2
    /\ call.before.height = 2
    /\ call.x = 0
    /\ call.y = 0
    /\ call.width = 2
    /\ call.height = 2
    /\ pc = "panic"

\* A second fill paints over a part of the first
FillOver ==
    /\ call.fn = "fill_rect"
    /\ pc = "idle"
    /\ call.before # ImageOf(image.width, image.height)
    /\ \E px \in 0..(image.width - 1), py \in 0..(image.height - 1) :
           /\ InRect(px, py)
           /\ get_pixel(call.before, px, py) # Black
           /\ get_pixel(image, px, py) # get_pixel(call.before, px, py)

====
